---- MODULE Spec2Model ----
(***************************************************************************)
(* Kanagawa Engine: a userspace control loop that samples /proc/stat       *)
(* every MONITOR_INTERVAL_SEC seconds, classifies the utilization against  *)
(* CPU_USAGE_THRESHOLD and writes scaling_min_freq / scaling_max_freq of   *)
(* every cpufreq policy directory.  Model of Sources/KanagawaEngine.cpp.   *)
(*                                                                         *)
(* Environment (not code of the repository): /proc/stat, the cpufreq       *)
(* sysfs tree and the kernel behind scaling_min_freq / scaling_max_freq.   *)
(* Every fopen/open/opendir may fail independently; the kernel refuses a   *)
(* store that would leave min > max and otherwise stores the value         *)
(* clamped to the hardware limits of the policy.                           *)
(*                                                                         *)
(* Abstractions:                                                           *)
(*  - unsigned long long is Modulus wide instead of 2^64 wide;             *)
(*  - usage (a double) is kept as an exact reduced fraction num/den;       *)
(*  - a frequency table is the sequence of integers atoi yields for the    *)
(*    tokens of scaling_available_frequencies, in file order;              *)
(*  - cpuinfo_max_freq of a policy is the largest frequency of its table;  *)
(*  - directory entries that do not start with "policy" are left out;      *)
(*  - a file that opens also parses (fscanf and fgets succeed);            *)
(*  - nothing but this program writes the boundary files;                  *)
(*  - usage and the FILE* of /proc/stat are dead once apply_profile is     *)
(*    entered and are cleared there; is_high_load and zero_delta are       *)
(*    cleared when apply_profile returns.                                  *)
(***************************************************************************)
EXTENDS Integers, Sequences, FiniteSets, TLC

\* ---------------------------------------------------------------- bounds

\* Width of the tick counters (stands for 2^64).
Modulus == 8

\* /proc/stat reports a total of 0 or of TickStep ticks, idle anywhere below.
TickStep == 5

\* Longest table under ResolveSpec, but for the two that exceed MAX_TABLE.
MaxTokens == 4

\* ------------------------------------------------------ program constants

CPU_USAGE_THRESHOLD == 40

\* int freqs[100]; while (token && count < 100)
MAX_TABLE == 100

\* ------------------------------------------------------------ environment

\* Entries of /sys/devices/system/cpu/cpufreq that pass the "policy" filter.
Domains == {"policy0", "policy1"}

\* Content of scaling_available_frequencies, in file order (kHz / 1000).
FreqTable(d) == IF d = "policy0" THEN <<300, 100, 400, 200>> ELSE <<200, 100>>

Nodes == {"min", "max"}

\* (idle, total) pairs the first line of /proc/stat can yield.
Samples == {s \in (0..TickStep) \X {0, TickStep} : s[1] <= s[2]}

\* ------------------------------------------------------------ arithmetic

\* a - b on unsigned long long
USub(a, b) == (a - b + Modulus) % Modulus

RECURSIVE Gcd(_, _)
Gcd(a, b) == IF b = 0 THEN a ELSE Gcd(b, a % b)

\* The value num/den as a reduced fraction (den > 0).
Frac(num, den) == LET g == Gcd(num, den) IN [num |-> num \div g, den |-> den \div g]

Zero == [num |-> 0, den |-> 1]

\* main, lines 182-188: usage from the two deltas.
Usage_noguard(diff_total, diff_idle) ==
    IF diff_total > 0
    THEN Frac(100 * USub(diff_total, diff_idle), diff_total)
    ELSE [num |-> 100, den |-> 1]

Usage(diff_total, diff_idle) ==
    IF diff_total > 0
    THEN Frac(100 * USub(diff_total, diff_idle), diff_total)
    ELSE Zero

\* main, line 194: usage > CPU_USAGE_THRESHOLD
IsHighLoad_ge(u) == u.num >= CPU_USAGE_THRESHOLD * u.den

IsHighLoad(u) == u.num > CPU_USAGE_THRESHOLD * u.den

\* ------------------------------------------------------ get_target_freq

\* Lines 86-92: at most MAX_TABLE tokens are parsed.
ParseTokens(tokens) ==
    SubSeq(tokens, 1, IF Len(tokens) < MAX_TABLE THEN Len(tokens) ELSE MAX_TABLE)

Swap(s, j) == [s EXCEPT ![j] = s[j + 1], ![j + 1] = s[j]]

\* Lines 100-104: the body of the inner loop at j (1-based).
CompareSwap(s, j) == IF s[j] > s[j + 1] THEN Swap(s, j) ELSE s

\* Lines 98-104: one pass of the inner loop, the steps j = from .. last in
\* order.  The range is halved so that a table of MAX_TABLE tokens evaluates
\* in logarithmic depth; the steps and their order are those of the loop.
\* A pass keeps the length of the array: the test on Len(left) only makes
\* the first half be evaluated before the second half is entered.
RECURSIVE BubblePass(_, _, _)
BubblePass(s, from, last) ==
    IF from > last THEN s
    ELSE IF from = last THEN CompareSwap(s, from)
    ELSE LET mid == (from + last) \div 2
             left == BubblePass(s, from, mid)
         IN  IF Len(left) = Len(s) THEN BubblePass(left, mid + 1, last) ELSE s

\* Lines 97-105: the passes i = lo .. hi in order, halved likewise.
RECURSIVE BubblePasses(_, _, _)
BubblePasses(s, lo, hi) ==
    IF lo > hi THEN s
    ELSE IF lo = hi THEN BubblePass(s, 1, Len(s) - lo - 1)
    ELSE LET mid == (lo + hi) \div 2
             left == BubblePasses(s, lo, mid)
         IN  IF Len(left) = Len(s) THEN BubblePasses(left, mid + 1, hi) ELSE s

\* Variant that stops after the first pass.
BubbleSort_onepass(s, i) == BubblePasses(s, i, i)

\* Lines 97-105: passes i .. count - 2.
BubbleSort(s, i) == BubblePasses(s, i, Len(s) - 2)

\* Variant that rounds count * percent up instead of truncating it.
PercentIndex_ceil(count, pnum, pden) ==
    LET index == (count * pnum + pden - 1) \div pden
    IN  IF index >= count THEN count - 1 ELSE index

\* Lines 111-112: index = (int)(count * percent), clamped; percent = pnum/pden.
PercentIndex(count, pnum, pden) ==
    LET index == (count * pnum) \div pden
    IN  IF index >= count THEN count - 1 ELSE index

\* Variant that picks from the table as parsed, without sorting it.
ResolveTable_unsorted(tokens, pnum, pden, return_abs_max, return_abs_min) ==
    LET freqs == ParseTokens(tokens)
        count == Len(freqs)
    IN  IF count = 0 THEN 0
        ELSE IF return_abs_max THEN freqs[count]
        ELSE IF return_abs_min THEN freqs[1]
        ELSE freqs[PercentIndex(count, pnum, pden) + 1]

\* Lines 85-114: the value picked from a readable table.
ResolveTable(tokens, pnum, pden, return_abs_max, return_abs_min) ==
    LET freqs == ParseTokens(tokens)
        count == Len(freqs)
        sorted == BubbleSort(freqs, 0)
    IN  IF count = 0 THEN 0
        ELSE IF return_abs_max THEN sorted[count]
        ELSE IF return_abs_min THEN sorted[1]
        ELSE sorted[PercentIndex(count, pnum, pden) + 1]

\* Hardware limits of a policy (cpuinfo_min_freq, cpuinfo_max_freq).
CpuinfoMax(d) == ResolveTable(FreqTable(d), 1, 1, TRUE, FALSE)

CpuinfoMin(d) == ResolveTable(FreqTable(d), 0, 1, FALSE, TRUE)

\* Lines 70-114 on given file contents.  tokens: scaling_available_frequencies,
\* fallback: cpuinfo_max_freq; table_ok, fallback_ok: their fopen worked.
ReadFreq_anymode(tokens, fallback, table_ok, fallback_ok, pnum, pden, return_abs_max, return_abs_min) ==
    IF ~table_ok
    THEN IF fallback_ok THEN fallback ELSE 0
    ELSE ResolveTable(tokens, pnum, pden, return_abs_max, return_abs_min)

ReadFreq(tokens, fallback, table_ok, fallback_ok, pnum, pden, return_abs_max, return_abs_min) ==
    IF ~table_ok
    THEN IF return_abs_max /\ fallback_ok THEN fallback ELSE 0
    ELSE ResolveTable(tokens, pnum, pden, return_abs_max, return_abs_min)

\* Lines 66-115 on the files of policy d.
get_target_freq(d, table_ok, fallback_ok, pnum, pden, return_abs_max, return_abs_min) ==
    ReadFreq(FreqTable(d), CpuinfoMax(d), table_ok, fallback_ok, pnum, pden,
             return_abs_max, return_abs_min)

\* ------------------------------------------------------------------ state

VARIABLES
    pc,             \* position of the single thread of main
    prev_idle, prev_total, curr_idle, curr_total,
    usage,          \* double usage of the current iteration
    fp,             \* FILE* of /proc/stat in this iteration: "none", "ok", "null"
    zero_delta,     \* diff_total == 0 (line 186) in this iteration
    is_high_load,   \* argument of apply_profile
    dir,            \* DIR* of apply_profile: "none", "open", "null", "closed"
    todo,           \* entries readdir has not returned yet
    cur,            \* ent->d_name of the entry being handled
    absolute_max, absolute_min, target,
    log,            \* what apply_profile did in this iteration, in order
    failed_prev,    \* history: a store of the previous iteration did not take effect
    seen,           \* history: what the files of the entry last resolved offered
    call,           \* a call of get_target_freq on files of its own (ResolveSpec)
    kmin, kmax      \* kernel: scaling_min_freq, scaling_max_freq per policy

vars == <<pc, prev_idle, prev_total, curr_idle, curr_total, usage, fp, zero_delta,
          is_high_load, dir, todo, cur, absolute_max, absolute_min, target, log,
          failed_prev, seen, call, kmin, kmax>>

sampler == <<prev_idle, prev_total, curr_idle, curr_total, usage, fp, zero_delta>>

locals == <<cur, absolute_max, absolute_min, target>>

kernel == <<kmin, kmax>>

TableValues(d) == {FreqTable(d)[i] : i \in 1..Len(FreqTable(d))}

AllFreqs == UNION {TableValues(d) : d \in Domains}

\* Some store of a log did not take effect.
FailedIn(l) == \E i \in 1..Len(l) : l[i].op = "write" /\ l[i].res # "stored"

\* No entry has been resolved since the last readdir.
NoSeen == [dom |-> "none", src |-> "-"]

\* What the fopen calls of lines 70 and 75 met while the absolute bounds of an
\* entry were read: the frequency list at one read at least, else the
\* fallback file only, else nothing.
Source(table1, fallback, table2) ==
    IF table1 \/ table2 THEN "list" ELSE IF fallback THEN "fallback" ELSE "nothing"

\* No call of get_target_freq outside the control loop.
NoCall == [done |-> FALSE]

Init ==
    /\ pc = "init"
    /\ prev_idle = 0 /\ prev_total = 0
    /\ curr_idle = 0 /\ curr_total = 0
    /\ usage = Zero
    /\ fp = "none"
    /\ zero_delta = FALSE
    /\ is_high_load = FALSE
    /\ dir = "none"
    /\ todo = {}
    /\ cur = "none"
    /\ absolute_max = 0 /\ absolute_min = 0 /\ target = 0
    /\ log = <<>>
    /\ failed_prev = FALSE
    /\ seen = NoSeen
    /\ call = NoCall
    /\ kmin \in [Domains -> AllFreqs] /\ kmax \in [Domains -> AllFreqs]
    /\ \A d \in Domains :
          kmin[d] \in TableValues(d) /\ kmax[d] \in TableValues(d) /\ kmin[d] <= kmax[d]

\* ------------------------------------------------------------- sampler

\* Lines 46-61: *idle and *total are assigned only when fopen succeeded.
get_cpu_times(idle, total, fp_ok, s) ==
    IF fp_ok THEN [idle |-> s[1], total |-> s[2]] ELSE [idle |-> idle, total |-> total]

\* Line 172: the baseline read into prev_idle, prev_total.
Baseline ==
    /\ pc = "init"
    /\ \E fp_ok \in BOOLEAN, s \in Samples :
          LET r == get_cpu_times(prev_idle, prev_total, fp_ok, s)
          IN  /\ prev_idle' = r.idle
              /\ prev_total' = r.total
    /\ pc' = "sleep"
    /\ UNCHANGED <<curr_idle, curr_total, usage, fp, zero_delta, is_high_load, dir,
                   todo, locals, log, failed_prev, seen, call, kernel>>

\* Lines 178-192: sleep, read, deltas, usage, roll the snapshot.
Sample ==
    /\ pc = "sleep"
    /\ \E fp_ok \in BOOLEAN, s \in Samples :
          LET r == get_cpu_times(curr_idle, curr_total, fp_ok, s)
              diff_total == USub(r.total, prev_total)
              diff_idle == USub(r.idle, prev_idle)
          IN  /\ curr_idle' = r.idle
              /\ curr_total' = r.total
              /\ usage' = Usage(diff_total, diff_idle)
              /\ zero_delta' = (diff_total = 0)
              /\ prev_idle' = r.idle
              /\ prev_total' = r.total
              /\ fp' = IF fp_ok THEN "ok" ELSE "null"
    /\ pc' = "select"
    /\ dir' = "none"
    /\ log' = <<>>
    /\ failed_prev' = FailedIn(log)
    /\ UNCHANGED <<is_high_load, todo, locals, seen, call, kernel>>

\* Lines 194-198: the profile handed to apply_profile.
Select ==
    /\ pc = "select"
    /\ is_high_load' = IsHighLoad(usage)
    /\ pc' = "opendir"
    /\ UNCHANGED <<sampler, dir, todo, locals, log, failed_prev, seen, call, kernel>>

\* ------------------------------------------------------- apply_profile

Event(op, d, node, val, res) ==
    [op |-> op, dom |-> d, node |-> node, val |-> val, res |-> res]

\* Lines 121-122, opendir succeeded.
OpenDirOk ==
    /\ pc = "opendir"
    /\ dir' = "open"
    /\ todo' = Domains
    /\ pc' = "readdir"
    /\ usage' = Zero /\ fp' = "none"
    /\ UNCHANGED <<prev_idle, prev_total, curr_idle, curr_total, zero_delta,
                   is_high_load, locals, log, failed_prev, seen, call, kernel>>

\* Lines 121-122 without the NULL check: the enumeration goes ahead.
OpenDirFail_proceed ==
    /\ pc = "opendir"
    /\ dir' = "null"
    /\ todo' = Domains
    /\ pc' = "readdir"
    /\ usage' = Zero /\ fp' = "none"
    /\ UNCHANGED <<prev_idle, prev_total, curr_idle, curr_total, zero_delta,
                   is_high_load, locals, log, failed_prev, seen, call, kernel>>

\* Lines 121-122 with exit() in place of return.
OpenDirFail_exit ==
    /\ pc = "opendir"
    /\ dir' = "null"
    /\ pc' = "exit"
    /\ usage' = Zero /\ fp' = "none" /\ zero_delta' = FALSE
    /\ is_high_load' = FALSE
    /\ UNCHANGED <<prev_idle, prev_total, curr_idle, curr_total,
                   todo, locals, log, failed_prev, seen, call, kernel>>

\* Lines 121-122, opendir returned NULL: apply_profile returns.
OpenDirFail ==
    /\ pc = "opendir"
    /\ dir' = "null"
    /\ pc' = "sleep"
    /\ usage' = Zero /\ fp' = "none" /\ zero_delta' = FALSE
    /\ is_high_load' = FALSE
    /\ UNCHANGED <<prev_idle, prev_total, curr_idle, curr_total,
                   todo, locals, log, failed_prev, seen, call, kernel>>

\* Lines 124-128: readdir hands out the entries in an order of its own.
ReadDir ==
    /\ pc = "readdir"
    /\ todo # {}
    /\ \E d \in todo :
          /\ cur' = d
          /\ todo' = todo \ {d}
    /\ pc' = "resolve"
    /\ seen' = NoSeen
    /\ UNCHANGED <<sampler, is_high_load, dir, absolute_max, absolute_min, target,
                   log, failed_prev, call, kernel>>

\* Lines 124, 164: readdir returned NULL; closedir, return to main.
CloseDir ==
    /\ pc = "readdir"
    /\ todo = {}
    /\ dir' = "closed"
    /\ pc' = "sleep"
    /\ is_high_load' = FALSE /\ zero_delta' = FALSE
    /\ seen' = NoSeen
    /\ UNCHANGED <<prev_idle, prev_total, curr_idle, curr_total, usage, fp, todo,
                   locals, log, failed_prev, call, kernel>>

\* Line 135: what is left to enumerate after `continue`.
AfterSkip_break(rest) == {}

AfterSkip(rest) == rest

\* Line 135: the failsafe.
Failsafe_and(amax, amin) == amax = 0 /\ amin = 0

Failsafe(amax, amin) == amax = 0 \/ amin = 0

\* Lines 131-135: both absolute bounds, and the failsafe.
Resolve ==
    /\ pc = "resolve"
    /\ \E table1 \in BOOLEAN, fallback \in BOOLEAN, table2 \in BOOLEAN :
          LET amax == get_target_freq(cur, table1, fallback, 1, 1, TRUE, FALSE)
              amin == get_target_freq(cur, table2, fallback, 0, 1, FALSE, TRUE)
          IN  /\ IF Failsafe(amax, amin)
                 THEN /\ log' = Append(log, Event("skip", cur, "-", 0, "-"))
                      /\ todo' = AfterSkip(todo)
                      /\ cur' = "none"
                      /\ absolute_max' = 0 /\ absolute_min' = 0
                      /\ pc' = "readdir"
                 ELSE /\ absolute_max' = amax
                      /\ absolute_min' = amin
                      /\ pc' = "target"
                      /\ UNCHANGED <<log, todo, cur>>
              /\ seen' = [dom |-> cur, src |-> Source(table1, fallback, table2)]
    /\ UNCHANGED <<sampler, is_high_load, dir, target, failed_prev, call, kernel>>

\* Lines 146, 156: the percentile of the profile, as pnum/pden.
PercentOf(high) == IF high THEN <<3, 4>> ELSE <<1, 2>>

\* Lines 146, 156: target_75 or target_50.
ResolveTarget ==
    /\ pc = "target"
    /\ \E table \in BOOLEAN :
          LET tgt == get_target_freq(cur, table, FALSE, PercentOf(is_high_load)[1],
                                     PercentOf(is_high_load)[2], FALSE, FALSE)
          IN  /\ target' = tgt
              /\ log' = Append(log, Event("target", cur, "-", tgt, "-"))
    /\ pc' = "write1"
    /\ UNCHANGED <<sampler, is_high_load, dir, todo, cur, absolute_max, absolute_min,
                   failed_prev, seen, call, kernel>>

\* Kernel side of a store to scaling_min_freq / scaling_max_freq: refused when
\* it would leave min > max.
Accepts(node, val, curmin, curmax) ==
    IF node = "min" THEN val <= curmax ELSE val >= curmin

\* Kernel side: an accepted value is kept within the hardware limits.
Clamp(d, val) ==
    IF val < CpuinfoMin(d) THEN CpuinfoMin(d)
    ELSE IF val > CpuinfoMax(d) THEN CpuinfoMax(d) ELSE val

\* Lines 30-43: open, write, close; no result is looked at.
WriteResult(d, node, val, opens) ==
    IF ~opens THEN "noopen"
    ELSE IF Accepts(node, val, kmin[d], kmax[d]) THEN "stored" ELSE "rejected"

write_int_to_file(d, node, val, opens) ==
    LET res == WriteResult(d, node, val, opens)
    IN  /\ kmin' = IF res = "stored" /\ node = "min"
                   THEN [kmin EXCEPT ![d] = Clamp(d, val)] ELSE kmin
        /\ kmax' = IF res = "stored" /\ node = "max"
                   THEN [kmax EXCEPT ![d] = Clamp(d, val)] ELSE kmax
        /\ log' = Append(log, Event("write", d, node, val, res))

\* Lines 149-150 and 159-160: the two stores of a profile, in program order.
WritePlan_minfirst(high, amax, amin, tgt) ==
    IF high THEN << <<"min", tgt>>, <<"max", amax>> >>
    ELSE << <<"min", amin>>, <<"max", tgt>> >>

WritePlan_maxfirst(high, amax, amin, tgt) ==
    IF high THEN << <<"max", amax>>, <<"min", tgt>> >>
    ELSE << <<"max", tgt>>, <<"min", amin>> >>

WritePlan(high, amax, amin, tgt) ==
    IF high THEN << <<"max", amax>>, <<"min", tgt>> >>
    ELSE << <<"min", amin>>, <<"max", tgt>> >>

\* Lines 149, 159 with the rest of the policy given up when the store fails.
Write1_abort ==
    /\ pc = "write1"
    /\ \E opens \in BOOLEAN :
          LET w == WritePlan(is_high_load, absolute_max, absolute_min, target)[1]
          IN  /\ write_int_to_file(cur, w[1], w[2], opens)
              /\ IF WriteResult(cur, w[1], w[2], opens) = "stored"
                 THEN pc' = "write2" /\ UNCHANGED locals
                 ELSE /\ pc' = "readdir"
                      /\ cur' = "none"
                      /\ absolute_max' = 0 /\ absolute_min' = 0 /\ target' = 0
    /\ UNCHANGED <<sampler, is_high_load, dir, todo, failed_prev, seen, call>>

\* Lines 149, 159: the first store.
Write1 ==
    /\ pc = "write1"
    /\ \E opens \in BOOLEAN :
          LET w == WritePlan(is_high_load, absolute_max, absolute_min, target)[1]
          IN  write_int_to_file(cur, w[1], w[2], opens)
    /\ pc' = "write2"
    /\ UNCHANGED <<sampler, is_high_load, dir, todo, locals, failed_prev, seen, call>>

\* Lines 150, 160: the second store; the loop body ends.
Write2 ==
    /\ pc = "write2"
    /\ \E opens \in BOOLEAN :
          LET w == WritePlan(is_high_load, absolute_max, absolute_min, target)[2]
          IN  write_int_to_file(cur, w[1], w[2], opens)
    /\ pc' = "readdir"
    /\ cur' = "none"
    /\ absolute_max' = 0 /\ absolute_min' = 0 /\ target' = 0
    /\ seen' = NoSeen
    /\ UNCHANGED <<sampler, is_high_load, dir, todo, failed_prev, call>>

\* ------------------------------------------------------- specification

Next ==
    \/ Baseline
    \/ Sample
    \/ Select
    \/ OpenDirOk
    \/ OpenDirFail
    \/ ReadDir
    \/ CloseDir
    \/ Resolve
    \/ ResolveTarget
    \/ Write1
    \/ Write2

Spec == Init /\ [][Next]_vars

\* The thread is never suspended for good: sleep and every I/O call return.
LiveSpec == Spec /\ WF_vars(Next)

\* -------------------------------------- get_target_freq on its own files

\* The control loop before its first step, on a kernel at its hardware limits.
Parked ==
    /\ pc = "init"
    /\ prev_idle = 0 /\ prev_total = 0
    /\ curr_idle = 0 /\ curr_total = 0
    /\ usage = Zero
    /\ fp = "none"
    /\ zero_delta = FALSE
    /\ is_high_load = FALSE
    /\ dir = "none"
    /\ todo = {}
    /\ cur = "none"
    /\ absolute_max = 0 /\ absolute_min = 0 /\ target = 0
    /\ log = <<>>
    /\ failed_prev = FALSE
    /\ seen = NoSeen
    /\ kmin = [d \in Domains |-> CpuinfoMin(d)]
    /\ kmax = [d \in Domains |-> CpuinfoMax(d)]

loop == <<pc, prev_idle, prev_total, curr_idle, curr_total, usage, fp, zero_delta,
          is_high_load, dir, todo, cur, absolute_max, absolute_min, target, log,
          failed_prev, seen, kmin, kmax>>

\* The frequencies a table under ResolveSpec is made of.
Freqs == {100, 200, 300, 400}

ShortTables == UNION {[1..n -> Freqs] : n \in 0..MaxTokens}

\* MAX_TABLE + 1 tokens, the largest one last or first.
LongTables ==
    {[i \in 1..(MAX_TABLE + 1) |-> IF i = MAX_TABLE + 1 THEN 400 ELSE 100],
     [i \in 1..(MAX_TABLE + 1) |-> IF i = 1 THEN 400 ELSE 100]}

\* Content of cpuinfo_max_freq.
Fallbacks == {1200000}

NoOut == [max |-> -1, min |-> -1, p75 |-> -1, p50 |-> -1, p100 |-> -1]

ResolveInit ==
    /\ Parked
    /\ \E t \in ShortTables \cup LongTables, f \in Fallbacks,
          t_ok \in BOOLEAN, f_ok \in BOOLEAN :
          call = [done |-> FALSE, tokens |-> t, fallback |-> f, table_ok |-> t_ok,
                  fallback_ok |-> f_ok, out |-> NoOut, again |-> NoOut]

\* get_target_freq in each mode on the files of c: the calls of lines 131,
\* 132, 146 and 156, and a percentile of 1.0.
Resolved(c) ==
    [max  |-> ReadFreq(c.tokens, c.fallback, c.table_ok, c.fallback_ok, 1, 1, TRUE, FALSE),
     min  |-> ReadFreq(c.tokens, c.fallback, c.table_ok, c.fallback_ok, 0, 1, FALSE, TRUE),
     p75  |-> ReadFreq(c.tokens, c.fallback, c.table_ok, c.fallback_ok, 3, 4, FALSE, FALSE),
     p50  |-> ReadFreq(c.tokens, c.fallback, c.table_ok, c.fallback_ok, 1, 2, FALSE, FALSE),
     p100 |-> ReadFreq(c.tokens, c.fallback, c.table_ok, c.fallback_ok, 1, 1, FALSE, FALSE)]

\* The first round of calls on the files.
ResolveFirst ==
    /\ ~call.done
    /\ call' = [call EXCEPT !.done = TRUE, !.out = Resolved(call)]
    /\ UNCHANGED loop

\* The same calls once more, the files unchanged.
ResolveAgain ==
    /\ call.done
    /\ call.again = NoOut
    /\ call' = [call EXCEPT !.again = Resolved(call)]
    /\ UNCHANGED loop

ResolveNext ==
    \/ ResolveFirst
    \/ ResolveAgain

ResolveSpec == ResolveInit /\ [][ResolveNext]_vars

\* ---------------------------------------------------- reading the log

WritesOf(d) == SelectSeq(log, LAMBDA e : e.op = "write" /\ e.dom = d)

Skipped(d) == \E i \in 1..Len(log) : log[i].op = "skip" /\ log[i].dom = d

\* The percentile read of d has been made in this iteration and gave a frequency.
TargetResolved(d) ==
    \E i \in 1..Len(log) : log[i].op = "target" /\ log[i].dom = d /\ log[i].val # 0

InApply == pc \in {"readdir", "resolve", "target", "write1", "write2"}

\* Largest and smallest entry of a table, and the entry at rank pnum/pden,
\* stated without the sort of get_target_freq.
Largest(d) == CHOOSE v \in TableValues(d) : \A w \in TableValues(d) : w <= v

Smallest(d) == CHOOSE v \in TableValues(d) : \A w \in TableValues(d) : v <= w

\* ------------------------------------------------------------------- C1

C2_MaxThenMin ==
    (is_high_load /\ InApply) =>
        \A i \in 1..Len(log) :
            /\ (log[i].op = "write" /\ log[i].node = "max") =>
                  /\ log[i].val = Largest(log[i].dom)
                  /\ \A j \in 1..(i - 1) : ~(log[j].op = "write" /\ log[j].dom = log[i].dom)
            /\ (log[i].op = "write" /\ log[i].node = "min") =>
                  /\ i >= 3
                  /\ log[i - 1] = Event("write", log[i].dom, "max", Largest(log[i].dom),
                                         log[i - 1].res)
                  /\ log[i - 2] = Event("target", log[i].dom, "-", log[i].val, "-")
                  /\ log[i].val \in {0, ResolveTable(FreqTable(log[i].dom), 3, 4, FALSE, FALSE)}

C2_Witness ==
    /\ is_high_load
    /\ Len(log) = 3
    /\ log[2] = Event("write", "policy0", "max", 400, "stored")
    /\ log[3] = Event("write", "policy0", "min", 400, "stored")

\* ------------------------------------------------------------------- C3

\* C3: in a low-load iteration every store to scaling_max_freq of a policy
\* comes directly after the store of the absolute minimum to scaling_min_freq
\* of the same policy, which is the first store of that policy, and carries
\* the 50th-percentile target read for it.
C3_MinThenMax ==
    (~is_high_load /\ InApply) =>
        \A i \in 1..Len(log) :
            /\ (log[i].op = "write" /\ log[i].node = "min") =>
                  /\ log[i].val = Smallest(log[i].dom)
                  /\ \A j \in 1..(i - 1) : ~(log[j].op = "write" /\ log[j].dom = log[i].dom)
            /\ (log[i].op = "write" /\ log[i].node = "max") =>
                  /\ i >= 3
                  /\ log[i - 1] = Event("write", log[i].dom, "min", Smallest(log[i].dom),
                                         log[i - 1].res)
                  /\ log[i - 2] = Event("target", log[i].dom, "-", log[i].val, "-")
                  /\ log[i].val \in {0, ResolveTable(FreqTable(log[i].dom), 1, 2, FALSE, FALSE)}

C3_Witness ==
    /\ ~is_high_load /\ InApply
    /\ Len(log) = 3
    /\ log[2] = Event("write", "policy0", "min", 100, "stored")
    /\ log[3] = Event("write", "policy0", "max", 300, "stored")

\* ------------------------------------------------------------------- C4

\* C4: when apply_profile is entered, the high-load profile has been chosen
\* exactly when usage is strictly above 40; usage = 40 and usage = 0 give
\* the low-load profile.
C4_StrictThreshold ==
    pc = "opendir" =>
        /\ is_high_load <=> (usage.num > 40 * usage.den)
        /\ (usage.num = 40 * usage.den \/ usage.num = 0) => ~is_high_load

C4_Witness ==
    /\ pc = "opendir"
    /\ usage = [num |-> 40, den |-> 1]
    /\ ~is_high_load

\* ------------------------------------------------------------------- C5

\* C5 as stated: in an iteration whose total-tick delta is zero no boundary
\* file is written.
C5_AsStated ==
    zero_delta => \A i \in 1..Len(log) : log[i].op # "write"

\* C5 amended: in an iteration whose total-tick delta is zero, usage is
\* exactly 0.0, apply_profile is called all the same, with the low-load
\* profile, and whatever it stores is the low-load pair.
C5_ZeroDeltaIsLowLoad ==
    /\ [](zero_delta =>
            /\ ~is_high_load
            /\ pc \in {"select", "opendir"} => usage = Zero
            /\ \A i \in 1..Len(log) : log[i].op = "write" =>
                  \/ log[i].node = "min" /\ log[i].val = Smallest(log[i].dom)
                  \/ log[i].node = "max" /\ log[i - 1].op = "write"
                                         /\ log[i - 1].node = "min")
    /\ [][(zero_delta /\ pc = "select") => (pc' = "opendir" /\ ~is_high_load')]_vars

\* A zero-delta iteration that lowered policy0 to the low-load window.
C5_Witness ==
    /\ zero_delta
    /\ Len(log) >= 3
    /\ log[2] = Event("write", "policy0", "min", 100, "stored")
    /\ log[3] = Event("write", "policy0", "max", 300, "stored")

\* ------------------------------------------------------------------- C6

\* C6 as stated: in an iteration where /proc/stat could not be opened, the
\* usage computed is exactly 0.0.
C6_AsStated ==
    fp = "null" => usage = Zero

\* ------------------------------------------------------------------- C7

\* The loop body of apply_profile is over for d in this iteration.
Handled(d) ==
    \/ pc = "sleep" /\ dir = "closed"
    \/ InApply /\ d \notin todo /\ d # cur

\* Both boundary files of d were written in this iteration, once each.
BothWritten(d) ==
    /\ Len(WritesOf(d)) = 2
    /\ {WritesOf(d)[1].node, WritesOf(d)[2].node} = Nodes

\* C7: once the loop is over for a policy, the policy was either skipped
\* (its frequencies did not resolve) or got both of its stores, wherever the
\* skipped policies came in the enumeration; a skipped policy got none.
C7_SiblingsUpdated ==
    \A d \in Domains : Handled(d) =>
        /\ Skipped(d) \/ BothWritten(d)
        /\ Skipped(d) => Len(WritesOf(d)) = 0

\* policy0 came first and was skipped, policy1 was updated after it.
C7_Witness ==
    /\ pc = "sleep" /\ dir = "closed"
    /\ Len(log) = 4
    /\ log[1] = Event("skip", "policy0", "-", 0, "-")
    /\ log[3].op = "write" /\ log[3].dom = "policy1" /\ log[3].res = "stored"
    /\ log[4].op = "write" /\ log[4].dom = "policy1" /\ log[4].res = "stored"

\* ------------------------------------------------------------------- C8

\* C8: when opendir fails, apply_profile returns at once: nothing is resolved,
\* nothing is written, the kernel bounds stay, and the loop reaches the
\* opendir of a later iteration.
C8_DiscoveryFailure ==
    /\ [][(pc = "opendir" /\ dir' = "null") =>
             (pc' = "sleep" /\ log' = <<>> /\ UNCHANGED <<kmin, kmax>>)]_vars
    /\ [](dir = "null" => (pc = "sleep" /\ log = <<>>))
    /\ (dir = "null") ~> (pc = "opendir")

C8_Witness ==
    /\ dir = "null"
    /\ pc = "sleep"
    /\ log = <<>>
    /\ failed_prev

\* ------------------------------------------------------------------- C9

HasFailedWrite(d) ==
    \E i \in 1..Len(WritesOf(d)) : WritesOf(d)[i].res # "stored"

\* C9: a store that fails is not repeated (each boundary file of a policy is
\* written at most once per iteration); the policy it belongs to still gets
\* its other store; every policy handled in an iteration with a failed store,
\* or in the iteration after one, is skipped or gets both stores.
C9_FailedWriteIgnored ==
    /\ \A d \in Domains : \A n \in Nodes :
          Cardinality({i \in 1..Len(log) :
              log[i].op = "write" /\ log[i].dom = d /\ log[i].node = n}) <= 1
    /\ \A d \in Domains : (Handled(d) /\ HasFailedWrite(d)) => BothWritten(d)
    /\ \A d \in Domains : (Handled(d) /\ (FailedIn(log) \/ failed_prev)) =>
          (Skipped(d) \/ BothWritten(d))

\* The iteration after a failed store: the first store of policy0 fails
\* again, its second store and both stores of policy1 are issued and kept.
C9_Witness ==
    /\ failed_prev
    /\ pc = "sleep" /\ dir = "closed"
    /\ Len(log) = 6
    /\ log[2].op = "write" /\ log[2].dom = "policy0" /\ log[2].res = "noopen"
    /\ log[3].op = "write" /\ log[3].dom = "policy0" /\ log[3].res = "stored"
    /\ log[5].op = "write" /\ log[5].dom = "policy1" /\ log[5].res = "stored"
    /\ log[6].op = "write" /\ log[6].dom = "policy1" /\ log[6].res = "stored"

\* ------------------------------------------------------------------ C10

LoopPcs == {"init", "sleep", "select", "opendir", "readdir", "resolve", "target",
            "write1", "write2"}

\* C10: the thread is always inside the loop with a next step to take; every
\* iteration that has started comes back to the sleep, and another iteration
\* starts after it.
C10_NeverTerminates ==
    /\ [](pc \in LoopPcs /\ ENABLED Next)
    /\ (pc = "select") ~> (pc = "sleep")
    /\ []<>(pc = "select")

\* The end of an iteration in which a policy was skipped, a store could not
\* be opened and a store was refused, after an iteration with a failed store.
C10_Witness ==
    /\ pc = "sleep" /\ dir = "closed"
    /\ failed_prev
    /\ \E i \in 1..Len(log) : log[i].op = "skip"
    /\ \E i \in 1..Len(log) : log[i].op = "write" /\ log[i].res = "noopen"
    /\ \E i \in 1..Len(log) : log[i].op = "write" /\ log[i].res = "rejected"

\* ------------------------------------------------------------------ C11

\* C11 as stated: the value 0 is never written to a boundary file.
C11_AsStated ==
    \A i \in 1..Len(log) : log[i].op = "write" => log[i].val # 0

\* ------------------------------------------------------------------ C12

\* Some step changes the bounds of d or issues a store for d.
Touches(d) ==
    \/ kmin'[d] # kmin[d]
    \/ kmax'[d] # kmax[d]
    \/ Len(SelectSeq(log', LAMBDA e : e.op = "write" /\ e.dom = d)) > Len(WritesOf(d))

\* C12: the read of the two absolute bounds goes on to the stores only with
\* both values different from 0 and otherwise skips the policy at once,
\* leaving the kernel bounds alone; a skipped policy gets no store, and no
\* later step of the iteration changes its bounds.
C12_SkippedUntouched ==
    /\ [](\A d \in Domains : Skipped(d) => (Len(WritesOf(d)) = 0 /\ d # cur))
    /\ [][pc = "resolve" =>
            \/ /\ pc' = "target"
               /\ absolute_max' # 0 /\ absolute_min' # 0
               /\ log' = log
            \/ /\ pc' = "readdir"
               /\ log' = Append(log, Event("skip", cur, "-", 0, "-"))
               /\ UNCHANGED <<kmin, kmax>>]_vars
    /\ [][\A d \in Domains : Touches(d) =>
            /\ d = cur /\ ~Skipped(d)
            /\ absolute_max # 0 /\ absolute_min # 0]_vars

\* policy0 was skipped first, policy1 was written after it, and the bounds
\* of policy0 are not those of either profile.
C12_Witness ==
    /\ pc = "sleep" /\ dir = "closed"
    /\ log[1] = Event("skip", "policy0", "-", 0, "-")
    /\ Len(WritesOf("policy1")) = 2
    /\ kmin["policy0"] = 200 /\ kmax["policy0"] = 200

\* ------------------------------------------------------------------ C20

\* C20 as stated: once both stores of a policy were accepted in an
\* iteration, its bounds are (75th percentile, absolute maximum) of its
\* table under high load and (absolute minimum, 50th percentile) under low
\* load.
C20_AsStated ==
    \A d \in Domains :
        (InApply /\ Handled(d) /\ BothWritten(d)
            /\ WritesOf(d)[1].res = "stored" /\ WritesOf(d)[2].res = "stored") =>
        IF is_high_load
        THEN /\ kmin[d] = ResolveTable(FreqTable(d), 3, 4, FALSE, FALSE)
             /\ kmax[d] = Largest(d)
        ELSE /\ kmin[d] = Smallest(d)
             /\ kmax[d] = ResolveTable(FreqTable(d), 1, 2, FALSE, FALSE)

\* ------------------------------------------------------------------ C19

\* C19: an entry whose frequency list could not be opened at either read of
\* the absolute bounds is skipped, fallback file readable or not, and gets
\* no store; the reads of an entry that goes on to the stores met the list.
C19_NoListIsSkipped ==
    /\ seen.src \in {"fallback", "nothing"} =>
          /\ pc \in {"readdir", "resolve"}
          /\ Skipped(seen.dom)
          /\ Len(WritesOf(seen.dom)) = 0
    /\ pc \in {"target", "write1", "write2"} => seen = [dom |-> cur, src |-> "list"]

\* High load: policy0 offered its fallback maximum only and was skipped,
\* policy1 was updated before it.
C19_Witness ==
    /\ is_high_load
    /\ seen = [dom |-> "policy0", src |-> "fallback"]
    /\ Skipped("policy0")
    /\ BothWritten("policy1")

\* ------------------------------------------------------------------ C13

\* Positions of the tokens that are parsed.
Kept(t) == {i \in 1..Len(t) : i <= MAX_TABLE}

\* The parsed value with k parsed values before it in ascending order.
AtRank(t, k) ==
    CHOOSE v \in {t[i] : i \in Kept(t)} :
        /\ Cardinality({i \in Kept(t) : t[i] < v}) <= k
        /\ k < Cardinality({i \in Kept(t) : t[i] <= v})

\* floor(count * pnum / pden), clamped to count - 1.
FloorIndex(count, pnum, pden) ==
    LET k == CHOOSE n \in 0..(count * pnum) :
                 n * pden <= count * pnum /\ count * pnum < (n + 1) * pden
    IN  IF k > count - 1 THEN count - 1 ELSE k

\* C13: on a readable non-empty table, in any token order, AbsoluteMax is the
\* largest parsed value, AbsoluteMin the smallest, and a percentile p the
\* element of the ascending table at index floor(count * p) clamped to
\* count - 1; [100,200,300,400] gives 400, 300, 400 and 100.
C13_TableValues ==
    (call.done /\ call.table_ok /\ Len(call.tokens) > 0) =>
        LET t == call.tokens
            count == Cardinality(Kept(t))
        IN  /\ call.out.max \in {t[i] : i \in Kept(t)}
            /\ \A i \in Kept(t) : t[i] <= call.out.max
            /\ call.out.min \in {t[i] : i \in Kept(t)}
            /\ \A i \in Kept(t) : t[i] >= call.out.min
            /\ call.out.p75 = AtRank(t, FloorIndex(count, 3, 4))
            /\ call.out.p50 = AtRank(t, FloorIndex(count, 1, 2))
            /\ call.out.p100 = AtRank(t, FloorIndex(count, 1, 1))
            /\ t = <<100, 200, 300, 400>> =>
                   /\ call.out.p75 = 400 /\ call.out.p50 = 300
                   /\ call.out.max = 400 /\ call.out.min = 100

C13_Witness ==
    /\ call.done /\ call.table_ok
    /\ call.tokens = <<300, 100, 400, 200>>
    /\ call.out.p75 = 400 /\ call.out.p50 = 300
    /\ call.out.max = 400 /\ call.out.min = 100

\* ------------------------------------------------------------------ C14

AllZero(o) == o.max = 0 /\ o.min = 0 /\ o.p75 = 0 /\ o.p50 = 0 /\ o.p100 = 0

\* C14: with an unreadable frequency list AbsoluteMax returns the fallback
\* maximum when that is readable, and AbsoluteMin and every percentile return
\* 0 whether or not the fallback is readable; an empty table returns 0 in
\* every mode.
C14_UnreadableOrEmpty ==
    call.done =>
        /\ ~call.table_ok =>
               /\ call.fallback_ok => call.out.max = call.fallback
               /\ call.out.min = 0
               /\ call.out.p75 = 0 /\ call.out.p50 = 0 /\ call.out.p100 = 0
        /\ (call.table_ok /\ call.tokens = <<>>) => AllZero(call.out)

C14_Witness ==
    /\ call.done
    /\ ~call.table_ok /\ call.fallback_ok
    /\ call.tokens # <<>>
    /\ call.out.max = 1200000
    /\ call.out.min = 0 /\ call.out.p75 = 0 /\ call.out.p50 = 0

\* ------------------------------------------------------------------ C18

\* C18: on a readable non-empty table the four values apply_profile uses are
\* ordered AbsoluteMin <= Percentile(0.50) <= Percentile(0.75) <= AbsoluteMax,
\* so the HighLoad pair (min = Percentile(0.75), max = AbsoluteMax) and the
\* LowLoad pair (min = AbsoluteMin, max = Percentile(0.50)) have min <= max.
C18_Ordered ==
    (call.done /\ call.table_ok /\ Len(call.tokens) > 0) =>
        /\ call.out.min <= call.out.p50
        /\ call.out.p50 <= call.out.p75
        /\ call.out.p75 <= call.out.max

C18_Witness ==
    /\ call.done /\ call.table_ok
    /\ call.tokens = <<400, 300, 200, 100>>
    /\ call.out.min = 100 /\ call.out.p50 = 300
    /\ call.out.p75 = 400 /\ call.out.max = 400

\* ------------------------------------------------------------------ C17

\* The reorderings of n positions.
Bijections ==
    [n \in 0..MaxTokens |->
        {f \in [1..n -> 1..n] : \A i, j \in 1..n : f[i] = f[j] => i = j}]

\* The same tokens in another order: every order of a short table, the
\* reverse order of a long one.
Rearrangements(t) ==
    IF Len(t) <= MaxTokens
    THEN {[i \in 1..Len(t) |-> t[f[i]]] : f \in Bijections[Len(t)]}
    ELSE {[i \in 1..Len(t) |-> t[Len(t) + 1 - i]]}

SameInAnyOrder(c) ==
    \A q \in Rearrangements(c.tokens) : Resolved([c EXCEPT !.tokens = q]) = c.out

\* C17 as stated: resolving the same table twice with the same mode yields
\* the same value, and so does resolving any permutation of its tokens.
C17_AsStated ==
    call.done =>
        /\ call.again # NoOut => call.again = call.out
        /\ SameInAnyOrder(call)

\* C17, amended: resolving the same table twice with the same mode yields
\* the same value, and so does resolving any permutation of a table of at
\* most MAX_TABLE tokens.
C17_OrderIndependent ==
    call.done =>
        /\ call.again # NoOut => call.again = call.out
        /\ Len(call.tokens) <= MAX_TABLE => SameInAnyOrder(call)

C17_Witness ==
    /\ call.done /\ call.table_ok
    /\ call.tokens = <<200, 400, 100, 300>>
    /\ call.again = call.out
    /\ call.out.min = 100 /\ call.out.p50 = 300 /\ call.out.max = 400
    /\ SameInAnyOrder(call)

\* ------------------------------------------------------------------ C15

\* C15: when the current snapshot has the total of the previous one, whatever
\* the idle ticks, the usage computed by the loop is exactly 0.0, by the
\* branch that does not divide.
C15_EqualTotalsGiveZero ==
    [][(pc = "sleep" /\ curr_total' = prev_total) =>
           (usage' = Zero /\ zero_delta')]_vars

\* An iteration that read a snapshot with the previous total and other idle
\* ticks than the ones before the baseline.
C15_Witness ==
    /\ pc = "select"
    /\ fp = "ok"
    /\ zero_delta
    /\ curr_total = TickStep /\ curr_idle = 2
    /\ usage = Zero

\* ------------------------------------------------------------------ C16

\* C16 as stated: when the total-tick delta between the previous and the
\* current snapshot is non-zero, the usage computed by the loop equals
\* 100 * (delta_total - delta_idle) / delta_total.
C16_AsStated ==
    [][pc = "sleep" =>
           LET delta_total == USub(curr_total', prev_total)
               delta_idle == USub(curr_idle', prev_idle)
           IN  delta_total # 0 =>
                   usage'.num * delta_total =
                       100 * (delta_total - delta_idle) * usage'.den]_vars

====
